---- MODULE Spec2Model ----
(***************************************************************************)
(* Model of scripts/streamlit_app.py: the prediction wrapper               *)
(* predict_category, the session-state callbacks, the upload handling and  *)
(* the batch analysis loop of tab2, and the threshold filter of the        *)
(* results display.                                                        *)
(*                                                                         *)
(* Representation.  A Python str is a sequence of one-character strings   *)
(* of characters; "NUL" stands for U+0000 and "XFF" for a byte that is not    *)
(* valid UTF-8.  A list entry is a record [type, chars]; type "str" is a   *)
(* Python str, the other types are non-string values (None, float, NaN).   *)
(* A float32 value is a record [m, e] that stands for m * 2^e with a       *)
(* mantissa m of 24 bits; every float32 operation rounds its exact result  *)
(* to 24 significant bits, ties to even.                                   *)
(***************************************************************************)
EXTENDS Integers, Sequences, FiniteSets, TLC

VARIABLES
    cached,               \* st.cache_resource holds the loaded model
    artifacts,            \* the model files as the last load attempt found them
    clearClicked,         \* whether "Clear Inputs & Results" triggered the last run, and what it found
    text_input_single,    \* st.session_state.text_input_single
    uploader_key_counter, \* st.session_state.uploader_key_counter
    results_df,           \* st.session_state.results_df (present or absent)
    confidence_threshold, \* sidebar slider, in hundredths
    max_batch_size,       \* sidebar number input
    uploaded_file,        \* value of the file_uploader widget
    message,              \* error message shown by the last script run
    display,              \* what the results section rendered in the last run
    single_result,        \* what tab1 rendered in the last run
    lastCalls,            \* positions of the articles given to the model in the last run
    raised,               \* an exception was raised inside tab2's try block in the last run
    chunkSizes,           \* lengths of the chunks np.array_split produced in the last batch run
    usedKeys,             \* file_uploader keys rendered so far in the session
    everHalted,           \* a run was halted by a failed model load
    call_input,           \* argument of the last direct predict_category call
    call_fault,           \* which model invocation of that call raises (0: none)
    call_output,          \* its outcome
    call_state,           \* "idle", "pending" or "done"
    softmax_kernel,       \* how the softmax kernel of this installation normalises
    checkpoint            \* the fine-tuned weights found in MODEL_DIR

vars == <<cached, artifacts, clearClicked, text_input_single, uploader_key_counter, results_df,
          confidence_threshold, max_batch_size, uploaded_file, message,
          display, single_result, lastCalls, raised, chunkSizes,
          usedKeys, everHalted,
          call_input, call_fault, call_output, call_state, softmax_kernel, checkpoint>>

----------------------------------------------------------------------------
(* Bounds *)

MaxListLen == 3       \* longest list given directly to predict_category
MaxArticles == 21     \* longest uploaded file
MaxClears == 1        \* clear actions per session

----------------------------------------------------------------------------
(* Python str helpers *)

IsSpace(c) == c = " "

RECURSIVE LStrip(_)
LStrip(s) == IF s # <<>> /\ IsSpace(Head(s)) THEN LStrip(Tail(s)) ELSE s

RECURSIVE RStrip(_)
RStrip(s) == IF s # <<>> /\ IsSpace(s[Len(s)])
             THEN RStrip(SubSeq(s, 1, Len(s) - 1)) ELSE s

\* str.strip() / bytes.strip()
Strip(s) == RStrip(LStrip(s))

RECURSIVE Count(_, _)
Count(s, c) == IF s = <<>> THEN 0
               ELSE (IF Head(s) = c THEN 1 ELSE 0) + Count(Tail(s), c)

Str(s) == [type |-> "str", chars |-> s]
NoneValue == [type |-> "NoneType", chars |-> <<>>]
FloatValue == [type |-> "float", chars |-> <<>>]
NaN == [type |-> "nan", chars |-> <<>>]

\* isinstance(text, str)
IsInstanceStr(text) == text.type = "str"

\* Variant: the emptiness test without strip()
InvalidEntryNoStrip(text) == ~IsInstanceStr(text) \/ text.chars = <<>>

\* not isinstance(text, str) or not text.strip()
InvalidEntry(text) == ~IsInstanceStr(text) \/ Strip(text.chars) = <<>>

----------------------------------------------------------------------------
(* The classifier: logits, softmax, argmax, label map *)

NumLabels == 4

LabelIds == 0 .. (NumLabels - 1)

\* id_to_label = {v: k for k, v in pickle.load(f).items()}
id_to_label == [i \in LabelIds |->
                  CASE i = 0 -> "World"
                    [] i = 1 -> "Sports"
                    [] i = 2 -> "Business"
                    [] OTHER -> "Sci/Tech"]

\* id_to_label_map.get(i, default)
LabelGet(i, default) == IF i \in DOMAIN id_to_label THEN id_to_label[i] ELSE default

LabelNames == {LabelGet(i, "L") : i \in LabelIds}

\* The fine-tuned weights are read from MODEL_DIR and are no part of the
\* script.  A checkpoint gives, for each character, what one occurrence of
\* it adds to the logit of each class.
Weights(a, b, space, nul) == [a |-> a, b |-> b, space |-> space, nul |-> nul]

\* the checkpoint the sessions are explored with
BaseCheckpoint == Weights(<<1, 0, 0, 0>>, <<0, 1, 0, 0>>, <<0, 0, 0, 0>>, <<0, 0, 1, 0>>)

\* the checkpoints predict_category is explored with: close and distant
\* logits, ties, and each class as the largest
Checkpoints ==
    {BaseCheckpoint,
     Weights(<<9, 2, 0, 0>>, <<2, 0, 0, 0>>, <<0, 0, 0, 1>>, <<0, 0, 0, 0>>),
     Weights(<<0, 0, 6, 0>>, <<0, 0, 0, 3>>, <<1, 0, 0, 0>>, <<0, 0, 0, 1>>),
     Weights(<<5, 5, 5, 5>>, <<0, 3, 3, 0>>, <<0, 0, 0, 0>>, <<0, 0, 0, 0>>),
     Weights(<<85, 0, 40, 20>>, <<0, 0, 0, 28>>, <<0, 2, 0, 0>>, <<12, 7, 0, 3>>),
     Weights(<<0, 85, 84, 1>>, <<10, 0, 0, 0>>, <<0, 0, 3, 0>>, <<0, 0, 13, 0>>),
     Weights(<<0, 30, 0, 0>>, <<1, 1, 2, 0>>, <<0, 0, 0, 0>>, <<0, 0, 0, 5>>),
     Weights(<<3, 4, 3, 1>>, <<4, 0, 2, 4>>, <<0, 0, 0, 0>>, <<0, 1, 0, 0>>),
     Weights(<<0, 1, 2, 3>>, <<0, 0, 1, 0>>, <<0, 1, 0, 0>>, <<2, 0, 0, 0>>),
     Weights(<<12, 0, 7, 3>>, <<8, 0, 0, 8>>, <<0, 0, 0, 0>>, <<0, 0, 0, 1>>),
     Weights(<<0, 0, 0, 4>>, <<0, 2, 0, 1>>, <<3, 0, 0, 0>>, <<0, 0, 0, 0>>),
     Weights(<<2, 2, 0, 0>>, <<0, 0, 20, 21>>, <<0, 0, 0, 0>>, <<0, 1, 0, 0>>),
     Weights(<<0, 17, 0, 16>>, <<3, 0, 0, 0>>, <<0, 0, 0, 0>>, <<0, 0, 5, 0>>),
     Weights(<<60, 0, 0, 0>>, <<0, 1, 1, 0>>, <<0, 0, 1, 0>>, <<0, 0, 0, 2>>),
     Weights(<<1, 1, 1, 0>>, <<0, 0, 0, 0>>, <<0, 0, 0, 0>>, <<0, 0, 0, 0>>),
     Weights(<<0, 0, 11, 0>>, <<5, 4, 0, 0>>, <<0, 0, 0, 0>>, <<0, 0, 0, 9>>)}

\* loaded_model(**inputs).logits: one integer logit per class, fixed by the
\* text and the weights
Logits(s, weights) ==
    [i \in LabelIds |->
        Count(s, "a") * weights.a[i + 1] + Count(s, "b") * weights.b[i + 1]
        + Count(s, " ") * weights.space[i + 1] + Count(s, "NUL") * weights.nul[i + 1]]

\* A float32 value m * 2^e: 2^23 <= m < 2^24, or m = 0 and e = MinExp for 0.0
Float(m, e) == [m |-> m, e |-> e]

\* 2^24: a float32 keeps 24 significant bits
Mantissa == 16777216

\* 2^23, the smallest mantissa
Hidden == 8388608

\* the exponent of the smallest float32 values
MinExp == -149

\* the float 0.0
Zero == Float(0, MinExp)

\* the float 1.0
One == Float(Hidden, -23)

\* 2^0, 2^1, ..., 2^30
PowersOfTwo ==
    <<
      1, 2, 4, 8, 16, 32, 64, 128,
      256, 512, 1024, 2048, 4096, 8192, 16384, 32768,
      65536, 131072, 262144, 524288, 1048576, 2097152, 4194304, 8388608,
      16777216, 33554432, 67108864, 134217728, 268435456, 536870912, 1073741824
    >>

\* 2^n for n of 0 .. 30
TwoTo(n) == PowersOfTwo[n + 1]

\* a >= b for floats that are not negative
GeqFloat(a, b) == a.e > b.e \/ (a.e = b.e /\ a.m >= b.m)

\* q + r / d rounded to the nearest integer, ties to even
RoundEven(q, r, d) ==
    IF 2 * r > d \/ (2 * r = d /\ q % 2 = 1) THEN q + 1 ELSE q

\* the float of a rounded mantissa, which may have reached 2^24
Renorm(m, e) == IF m = Mantissa THEN Float(Hidden, e + 1) ELSE Float(m, e)

\* hi + lo in float32 for floats hi >= lo > 0: lo is aligned to the exponent
\* of hi, s is the integer part of the sum and r / p its fraction
AddOrdered(hi, lo) ==
    LET diff == hi.e - lo.e
        p == TwoTo(diff)
        s == hi.m + lo.m \div p
        r == lo.m % p
    IN  IF diff > 25 THEN hi
        ELSE IF s < Mantissa THEN Renorm(RoundEven(s, r, p), hi.e)
        ELSE Renorm(RoundEven(s \div 2, (s % 2) * p + r, 2 * p), hi.e + 1)

\* float32 addition of two floats that are not negative
AddFloat(a, b) ==
    IF a.m = 0 THEN b
    ELSE IF b.m = 0 THEN a
    ELSE IF GeqFloat(a, b) THEN AddOrdered(a, b)
    ELSE AddOrdered(b, a)

\* 2^12, the square root of Mantissa
Split == 4096

\* float32 multiplication of two floats whose product is a normal float:
\* the 48-bit product of the mantissas is hi * 2^24 + lo
MulFloat(a, b) ==
    IF a.m = 0 \/ b.m = 0 THEN Zero
    ELSE LET ah == a.m \div Split
             al == a.m % Split
             bh == b.m \div Split
             bl == b.m % Split
             mid == ah * bl + al * bh
             t == al * bl + (mid % Split) * Split
             lo == t % Mantissa
             hi == ah * bh + mid \div Split + t \div Mantissa
         IN  IF hi >= Hidden
             THEN Renorm(RoundEven(hi, lo, Mantissa), a.e + b.e + 24)
             ELSE Renorm(RoundEven(2 * hi + lo \div Hidden, lo % Hidden, Hidden),
                         a.e + b.e + 23)

\* quotient bits produced by one step of the long division
DivChunk == 6

RECURSIVE DivBits(_, _)
\* long division by d: st.bits more quotient bits after the quotient st.q
\* with remainder st.r
DivBits(st, d) ==
    IF st.bits = 0 THEN st
    ELSE LET n == IF st.bits < DivChunk THEN st.bits ELSE DivChunk
             p == TwoTo(n)
         IN  DivBits([q |-> st.q * p + (st.r * p) \div d, r |-> (st.r * p) % d,
                      bits |-> st.bits - n], d)

\* the float of the quotient st.q with remainder st.r of a division by d
RoundQuotient(st, d, e) == Renorm(RoundEven(st.q, st.r, d), e)

\* float32 division w / t of two floats whose quotient is a normal float
DivFloat(w, t) ==
    IF w.m = 0 THEN Zero
    ELSE LET k == IF w.m >= t.m THEN 23 ELSE 24
         IN  RoundQuotient(DivBits([q |-> w.m \div t.m, r |-> w.m % t.m, bits |-> k], t.m),
                           t.m, w.e - t.e - k)

\* largest difference of logits the table of exp covers
MaxGap == 85

\* mantissas of the float32 values exp(0), exp(-1), ..., exp(-MaxGap)
ExpMantissas ==
    <<
      8388608, 12343986, 9082197, 13364614, 9833134, 14469631, 10646160, 15666013,
      11526408, 8480657, 12479438, 9181857, 13511266, 9941034, 14628408, 10762981,
      15837918, 11652889, 8573716, 12616376, 9282611, 13659527, 10050118, 14788927,
      10881084, 16011709, 11780757, 8667797, 12754817, 9384470, 13809414, 10160399,
      14951208, 11000484, 16187407, 11910029, 8762909, 12894777, 9487447, 13960946,
      10271890, 15115269, 11121193, 16365034, 12040719, 8859066, 13036273, 9591554,
      14114141, 10384605, 15281131, 11243228, 16544609, 12172843, 8956277, 13179321,
      9696803, 14269018, 10498556, 15448812, 11366601, 16726155, 12306417, 9054556,
      13323940, 9803207, 14425593, 10613758, 15618334, 11491328, 8454847, 12441457,
      9153912, 13470145, 9910779, 14583887, 10730224, 15789716, 11617424, 8547623,
      12577978, 9254359, 13617954, 10019531, 14743917, 10847968
    >>

\* exponents of the float32 values exp(0), exp(-1), ..., exp(-MaxGap)
ExpExponents ==
    <<
      -23, -25, -26, -28, -29, -31, -32, -34, -35, -36, -38, -39,
      -41, -42, -44, -45, -47, -48, -49, -51, -52, -54, -55, -57,
      -58, -60, -61, -62, -64, -65, -67, -68, -70, -71, -73, -74,
      -75, -77, -78, -80, -81, -83, -84, -86, -87, -88, -90, -91,
      -93, -94, -96, -97, -99, -100, -101, -103, -104, -106, -107, -109,
      -110, -112, -113, -114, -116, -117, -119, -120, -122, -123, -124, -126,
      -127, -129, -130, -132, -133, -135, -136, -137, -139, -140, -142, -143,
      -145, -146
    >>

\* exp(-d) in float32 for an integer d of 0 .. MaxGap
ExpNeg(d) == Float(ExpMantissas[d + 1], ExpExponents[d + 1])

RECURSIVE MaxLogitFrom(_, _, _)
MaxLogitFrom(logits, i, best) ==
    IF i >= NumLabels THEN best
    ELSE MaxLogitFrom(logits, i + 1, IF logits[i] > best THEN logits[i] ELSE best)

RECURSIVE WeightsFrom(_, _, _)
\* exp(logit - max) of classes i, i + 1, ...
WeightsFrom(logits, max, i) ==
    IF i >= NumLabels THEN <<>>
    ELSE <<ExpNeg(max - logits[i])>> \o WeightsFrom(logits, max, i + 1)

RECURSIVE SumFloat(_, _)
\* the float32 sum of the weights, accumulated from the left
SumFloat(w, acc) ==
    IF w = <<>> THEN acc ELSE SumFloat(Tail(w), AddFloat(acc, Head(w)))

RECURSIVE QuotientsFrom(_, _)
\* each weight divided by the sum
QuotientsFrom(w, total) ==
    IF w = <<>> THEN <<>>
    ELSE <<DivFloat(Head(w), total)>> \o QuotientsFrom(Tail(w), total)

RECURSIVE ProductsFrom(_, _)
\* each weight multiplied by the reciprocal of the sum
ProductsFrom(w, inverse) ==
    IF w = <<>> THEN <<>>
    ELSE <<MulFloat(Head(w), inverse)>> \o ProductsFrom(Tail(w), inverse)

\* The softmax kernels of torch normalise in one of two ways, depending on
\* the build and the device of line 123: "quotient" divides each exponential
\* by the sum, "reciprocal" multiplies it by 1 / sum.
Kernels == {"quotient", "reciprocal"}

\* the weights w normalised by their float32 sum
Normalise(w, kernel) ==
    IF kernel = "quotient"
    THEN QuotientsFrom(w, SumFloat(w, Zero))
    ELSE ProductsFrom(w, DivFloat(One, SumFloat(w, Zero)))

\* softmax(logits, dim=-1) in float32: exp(logit - max) of each class,
\* normalised by the sum of these exponentials
Softmax(logits, kernel) ==
    LET p == Normalise(WeightsFrom(logits, MaxLogitFrom(logits, 1, logits[0]), 0), kernel)
    IN  [i \in LabelIds |-> p[i + 1]]

RECURSIVE ArgmaxFrom(_, _, _)
ArgmaxFrom(p, i, best) ==
    IF i >= NumLabels THEN best
    ELSE ArgmaxFrom(p, i + 1, IF GeqFloat(p[best], p[i]) THEN best ELSE i)

\* Variant: the last class instead of the most probable one
ArgmaxLastClass(p) == NumLabels - 1

\* torch.argmax(probabilities, dim=-1).item(): first index of the maximum
Argmax(p) == ArgmaxFrom(p, 1, 0)

EmptyDict == [l \in {} |-> Zero]

\* Variant: the sentinel carries an empty text instead of the entry
SentinelRecordBlankText(text) ==
    [text |-> Str(<<>>), predicted_category |-> "Invalid/Empty",
     confidence |-> Zero, raw_probabilities |-> EmptyDict]

\* the record appended for an invalid entry
SentinelRecord(text) ==
    [text |-> text, predicted_category |-> "Invalid/Empty",
     confidence |-> Zero, raw_probabilities |-> EmptyDict]

\* Lines 150-156: the record made of an entry and its probabilities
RecordFrom(text, probabilities) ==
    LET predicted_label_idx == Argmax(probabilities)
    IN  [text |-> text,
         predicted_category |-> LabelGet(predicted_label_idx, "Unknown"),
         confidence |-> probabilities[predicted_label_idx],
         raw_probabilities |->
             [l \in LabelNames |->
                 probabilities[CHOOSE i \in LabelIds : LabelGet(i, "L") = l]]]

\* the record appended for a valid entry
ModelRecord(text) ==
    RecordFrom(text, Softmax(Logits(text.chars, checkpoint), softmax_kernel))

\* One pass of the for loop of predict_category from position i on.
\* acc = [results, calls, ncalls, raised]; failAt is the model invocation
\* (counted over the whole handler) that raises, 0 for none.
RECURSIVE PredictLoop(_, _, _, _)
PredictLoop(text_list, i, failAt, acc) ==
    IF i > Len(text_list) THEN acc
    ELSE IF InvalidEntry(text_list[i])
    THEN PredictLoop(text_list, i + 1, failAt,
             [acc EXCEPT !.results = Append(@, SentinelRecord(text_list[i]))])
    ELSE IF acc.ncalls + 1 = failAt
    THEN [acc EXCEPT !.calls = Append(@, i), !.ncalls = @ + 1, !.raised = TRUE]
    ELSE PredictLoop(text_list, i + 1, failAt,
             [acc EXCEPT !.results = Append(@, ModelRecord(text_list[i])),
                         !.calls = Append(@, i),
                         !.ncalls = @ + 1])

\* predict_category(text_list, ...) when ncalls model invocations were made
\* before it by the same handler
predict_category(text_list, failAt, ncalls) ==
    IF text_list = <<>>
    THEN [results |-> <<>>, calls |-> <<>>, ncalls |-> ncalls, raised |-> FALSE]
    ELSE PredictLoop(text_list, 1, failAt,
                [results |-> <<>>, calls |-> <<>>, ncalls |-> ncalls, raised |-> FALSE])

----------------------------------------------------------------------------
(* Uploaded files and their parsing *)

NoFile == [present |-> FALSE, ext |-> "", hasText |-> FALSE, rows |-> <<>>]

TxtFile(rows) == [present |-> TRUE, ext |-> "txt", hasText |-> FALSE, rows |-> rows]

CsvFile(hasText, rows) == [present |-> TRUE, ext |-> "csv", hasText |-> hasText, rows |-> rows]

\* a name the uploader accepts that ends with neither '.txt' nor '.csv'
UpperCaseFile == [present |-> TRUE, ext |-> "TXT", hasText |-> FALSE, rows |-> <<Str(<<"a">>)>>]

\* bytes.decode("utf-8") / the decoding inside pd.read_csv raise on an invalid byte
Undecodable(rows) == \E i \in 1 .. Len(rows) : Count(rows[i].chars, "XFF") > 0

RECURSIVE TxtTexts(_)
\* [line.decode("utf-8").strip() for line in uploaded_file if line.strip()]
TxtTexts(rows) ==
    IF rows = <<>> THEN <<>>
    ELSE IF Strip(Head(rows).chars) # <<>>
         THEN <<Str(Strip(Head(rows).chars))>> \o TxtTexts(Tail(rows))
         ELSE TxtTexts(Tail(rows))

RECURSIVE CsvTexts(_)
\* df['text'].dropna().astype(str).tolist()
CsvTexts(rows) ==
    IF rows = <<>> THEN <<>>
    ELSE IF Head(rows).type # "nan"
         THEN <<Str(Head(rows).chars)>> \o CsvTexts(Tail(rows))
         ELSE CsvTexts(Tail(rows))

Min(a, b) == IF a <= b THEN a ELSE b

Max(a, b) == IF a >= b THEN a ELSE b

\* texts[:max_batch_size]
Truncate(texts, m) == SubSeq(texts, 1, Min(Len(texts), m))

\* Variant: a CSV without the 'text' column is read as a file without articles
ParseUploadNoColumnCheck(file, m) ==
    IF ~file.present THEN [status |-> "none", texts |-> <<>>]
    ELSE IF file.ext = "txt"
    THEN IF Undecodable(file.rows) THEN [status |-> "error", texts |-> <<>>]
         ELSE [status |-> "ok", texts |-> Truncate(TxtTexts(file.rows), m)]
    ELSE IF file.ext = "csv"
    THEN IF Undecodable(file.rows) THEN [status |-> "error", texts |-> <<>>]
         ELSE IF ~file.hasText THEN [status |-> "ok", texts |-> <<>>]
         ELSE [status |-> "ok", texts |-> Truncate(CsvTexts(file.rows), m)]
    ELSE [status |-> "error", texts |-> <<>>]

\* Lines 256-270: status "none" (no file), "ok" (texts found, the run button
\* is rendered), "stop" (st.stop() after the missing-column error) or
\* "error" (an exception caught by the except clause).
ParseUpload(file, m) ==
    IF ~file.present THEN [status |-> "none", texts |-> <<>>]
    ELSE IF file.ext = "txt"
    THEN IF Undecodable(file.rows) THEN [status |-> "error", texts |-> <<>>]
         ELSE [status |-> "ok", texts |-> Truncate(TxtTexts(file.rows), m)]
    ELSE IF file.ext = "csv"
    THEN IF Undecodable(file.rows) THEN [status |-> "error", texts |-> <<>>]
         ELSE IF ~file.hasText THEN [status |-> "stop", texts |-> <<>>]
         ELSE [status |-> "ok", texts |-> Truncate(CsvTexts(file.rows), m)]
    ELSE [status |-> "error", texts |-> <<>>]

UploadMessage(parse) ==
    CASE parse.status = "stop" -> "CSV file must contain a 'text' column."
      [] parse.status = "error" -> "Error processing file"
      [] OTHER -> "none"

----------------------------------------------------------------------------
(* Chunking *)

ChunkDivisor == 10

\* num_chunks = max(1, (len(texts) // 10))
NumChunks(n) == Max(1, n \div ChunkDivisor)

\* Variant: the remainder of the division is not distributed
SectionSizeNoExtras(Ntotal, Nsections, k) == Ntotal \div Nsections

\* np.array_split section sizes: extras sections of Neach_section + 1, then
\* the others of Neach_section
SectionSize(Ntotal, Nsections, k) ==
    IF k <= Ntotal % Nsections THEN (Ntotal \div Nsections) + 1
    ELSE Ntotal \div Nsections

RECURSIVE DivPoint(_, _, _)
DivPoint(Ntotal, Nsections, k) ==
    IF k = 0 THEN 0
    ELSE DivPoint(Ntotal, Nsections, k - 1) + SectionSize(Ntotal, Nsections, k)

RECURSIVE RStripNul(_)
RStripNul(s) == IF s # <<>> /\ s[Len(s)] = "NUL"
                THEN RStripNul(SubSeq(s, 1, Len(s) - 1)) ELSE s

\* an element of a numpy unicode array read back by tolist(): numpy pads
\* with and strips trailing NUL characters
NumpyItem(text) == [text EXCEPT !.chars = RStripNul(@)]

\* np.array_split(texts, num_chunks), each chunk after .tolist()
ArraySplit(texts, Nsections) ==
    [k \in 1 .. Nsections |->
        LET st == DivPoint(Len(texts), Nsections, k - 1)
            end == DivPoint(Len(texts), Nsections, k)
        IN  [j \in 1 .. (end - st) |-> NumpyItem(texts[st + j])]]

RECURSIVE BatchLoop(_, _, _, _, _)

\* Lines 276-277: the rest of the loop once predict_category returned (or
\* raised) r for chunk k
AfterChunk(split, k, offset, failAt, acc, r) ==
    LET calls == acc.calls \o [j \in 1 .. Len(r.calls) |-> offset + r.calls[j]]
    IN  IF r.raised
        THEN [results |-> acc.results, calls |-> calls,
              ncalls |-> r.ncalls, raised |-> TRUE]
        ELSE BatchLoop(split, k + 1, offset + Len(split[k]), failAt,
                 [results |-> acc.results \o r.results, calls |-> calls,
                  ncalls |-> r.ncalls, raised |-> FALSE])

\* Lines 273-277: the loop over the chunks; acc = [results, calls, ncalls,
\* raised], calls holding positions in texts.
BatchLoop(split, k, offset, failAt, acc) ==
    IF k > Len(split) THEN acc
    ELSE AfterChunk(split, k, offset, failAt, acc,
                    predict_category(split[k], failAt, acc.ncalls))

BatchAnalysis(texts, failAt) ==
    BatchLoop(ArraySplit(texts, NumChunks(Len(texts))), 1, 0, failAt,
              [results |-> <<>>, calls |-> <<>>, ncalls |-> 0, raised |-> FALSE])

----------------------------------------------------------------------------
(* Stored results and their display *)

AbsentDF == [present |-> FALSE, columns |-> {}, rows |-> <<>>]

\* pd.DataFrame(results): the columns are the keys of the records
DataFrame(results) ==
    [present |-> TRUE,
     columns |-> IF results = <<>> THEN {}
                 ELSE {"text", "predicted_category", "confidence", "raw_probabilities"},
     rows |-> results]

\* confidence >= t / 100 for a float confidence of [0, 1]: 25 m 2^(e+2) >= t
GeqThreshold(confidence, t) ==
    LET k == -confidence.e - 2
    IN  (25 * confidence.m) \div TwoTo(IF k < 30 THEN k ELSE 30) >= t

RECURSIVE FilterRows(_, _)
\* results_df[results_df['confidence'] >= confidence_threshold]
FilterRows(rows, t) ==
    IF rows = <<>> THEN <<>>
    ELSE IF GeqThreshold(Head(rows).confidence, t)
         THEN <<Head(rows)>> \o FilterRows(Tail(rows), t)
         ELSE FilterRows(Tail(rows), t)

NotRendered(why) == [status |-> why, rows |-> <<>>]

\* Lines 284-308.  "skipped": the run stopped before the section;
\* "absent": no results_df key; "KeyError": results_df has no 'confidence'
\* column; "rows": filtered_df was computed.
ResultsSection(df, t, parse) ==
    IF parse.status = "stop" THEN NotRendered("skipped")
    ELSE IF ~df.present THEN NotRendered("absent")
    ELSE IF "confidence" \notin df.columns THEN NotRendered("KeyError")
    ELSE [status |-> "rows", rows |-> FilterRows(df.rows, t)]

----------------------------------------------------------------------------
(* Inputs *)

ShortText == <<"a", "b">>

\* sample_article: long enough to be classified
sample_article == <<"a", "a", "a", "a", " ", "b", "a", "a", "a", "a", "a", "b">>

TextInputs == {<<>>, ShortText, sample_article}

\* slider positions, in hundredths (range 0.0 .. 1.0, default 0.75)
Thresholds == {0, 75, 100}

DefaultThreshold == 75

\* number input positions (range 1 .. 1000, default 100)
BatchSizes == {10, 100}

DefaultBatchSize == 100

\* state of the model artifacts on disk when the load is attempted
Artifacts == {"present", "no_model_dir", "no_label_map", "unloadable"}

\* the model invocation of a handler that raises; 0: none does
FaultPoints == {0, 1, 12}

RECURSIVE SeqsUpTo(_, _)
SeqsUpTo(S, n) ==
    IF n = 0 THEN {<<>>}
    ELSE LET shorter == SeqsUpTo(S, n - 1)
         IN  shorter \cup {Append(q, x) : q \in {r \in shorter : Len(r) = n - 1}, x \in S}

LongLine(i) == CASE i % 3 = 0 -> Str(<<"a", "a", "a", "a">>)
                 [] i % 3 = 1 -> Str(<<" ", "b">>)
                 [] OTHER -> Str(<<"a", "b", "b">>)

LongFile(n) == TxtFile([i \in 1 .. n |-> LongLine(i)])

LongLens == {MaxArticles}

Files ==
    {TxtFile(<<>>),
     TxtFile(<<Str(<<"a">>)>>),
     TxtFile(<<Str(<<"a", " ">>), Str(<<" ">>), Str(<<"b", "NUL">>)>>),
     TxtFile(<<Str(<<"a">>), Str(<<"XFF">>)>>),
     CsvFile(TRUE, <<Str(<<"a", "a", "a", "a">>), NaN, Str(<<" ">>)>>),
     CsvFile(FALSE, <<Str(<<"a">>)>>),
     UpperCaseFile}
    \cup {LongFile(n) : n \in LongLens}

ListEntries == {Str(<<"a">>), Str(<<"b", "b", "NUL">>), Str(<<>>), Str(<<" ", " ">>),
                NoneValue, FloatValue}

InputLists == SeqsUpTo(ListEntries, MaxListLen)

----------------------------------------------------------------------------
(* Script runs *)

\* the kernel of the installation the sessions are explored on (a CPU one);
\* both kernels are explored for predict_category itself
SessionKernels == {"reciprocal"}

SessionCheckpoints == {BaseCheckpoint}

NoClear == [clicked |-> FALSE, hadText |-> FALSE, hadResults |-> FALSE]

NoSingle == [status |-> "none", record |-> SentinelRecord(Str(<<>>))]

NoCall == [results |-> <<>>, calls |-> <<>>, ncalls |-> 0, raised |-> FALSE]

Init ==
    /\ cached = FALSE
    /\ softmax_kernel \in SessionKernels
    /\ checkpoint \in SessionCheckpoints
    /\ artifacts = "unknown"
    /\ clearClicked = NoClear
    /\ text_input_single = <<>>
    /\ uploader_key_counter = 0
    /\ results_df = AbsentDF
    /\ confidence_threshold = DefaultThreshold
    /\ max_batch_size = DefaultBatchSize
    /\ uploaded_file = NoFile
    /\ message = "none"
    /\ display = NotRendered("skipped")
    /\ single_result = NoSingle
    /\ lastCalls = <<>>
    /\ raised = FALSE
    /\ chunkSizes = <<>>
    /\ usedKeys = {}
    /\ everHalted = FALSE
    /\ call_input = <<>>
    /\ call_fault = 0
    /\ call_output = NoCall
    /\ call_state = "idle"

\* tab2 and the results section of a run in which the run-analysis button
\* was not clicked; single and calls are what tab1 did in this run.
Page(single, calls) ==
    LET parse == ParseUpload(uploaded_file', max_batch_size')
    IN  /\ message' = UploadMessage(parse)
        /\ display' = ResultsSection(results_df', confidence_threshold', parse)
        /\ single_result' = single
        /\ lastCalls' = calls
        /\ raised' = (parse.status = "error")
        /\ chunkSizes' = <<>>
        /\ usedKeys' = usedKeys \cup {uploader_key_counter'}

\* A run in which neither the classify nor the run-analysis button was clicked.
Rerun == Page(NoSingle, <<>>)

\* Variant: only MODEL_DIR is tested for existence
LoadOutcomeOnlyModelDir(fs) ==
    IF fs = "no_model_dir" THEN "Model files not found"
    ELSE IF fs = "unloadable" THEN "An error occurred during model loading"
    ELSE "loaded"

\* load_model_and_tokenizer() of a run that finds the artifacts as fs
LoadOutcome(fs) ==
    IF fs \in {"no_model_dir", "no_label_map"} THEN "Model files not found"
    ELSE IF fs = "unloadable" THEN "An error occurred during model loading"
    ELSE "loaded"

\* A script run while the model is not cached: the load is attempted; on
\* failure st.error and st.stop(), on success the session keys are set and
\* the page is rendered.
StartRun(fs) ==
    /\ ~cached
    /\ artifacts' = fs
    /\ clearClicked' = NoClear
    /\ UNCHANGED <<softmax_kernel, checkpoint, call_input, call_fault, call_output, call_state,
                   confidence_threshold, max_batch_size, uploaded_file, results_df>>
    /\ IF LoadOutcome(fs) = "loaded"
       THEN /\ cached' = TRUE
            /\ text_input_single' = <<>>
            /\ uploader_key_counter' = 0
            /\ everHalted' = everHalted
            /\ Rerun
       ELSE /\ cached' = FALSE
            /\ everHalted' = TRUE
            /\ message' = LoadOutcome(fs)
            /\ UNCHANGED <<text_input_single, uploader_key_counter, display,
                           single_result, lastCalls, raised, chunkSizes, usedKeys>>

\* The user edits the text area.
EditText(t) ==
    /\ cached
    /\ t # text_input_single
    /\ text_input_single' = t
    /\ clearClicked' = NoClear
    /\ UNCHANGED <<softmax_kernel, checkpoint, cached, artifacts, uploader_key_counter, results_df, confidence_threshold,
                   max_batch_size, uploaded_file, everHalted,
                   call_input, call_fault, call_output, call_state>>
    /\ Rerun

\* load_sample, the callback of "Try Sample Article"
load_sample ==
    /\ cached
    /\ text_input_single' = sample_article
    /\ clearClicked' = NoClear
    /\ UNCHANGED <<softmax_kernel, checkpoint, cached, artifacts, uploader_key_counter, results_df, confidence_threshold,
                   max_batch_size, uploaded_file, everHalted,
                   call_input, call_fault, call_output, call_state>>
    /\ Rerun

SetThreshold(t) ==
    /\ cached
    /\ t # confidence_threshold
    /\ confidence_threshold' = t
    /\ clearClicked' = NoClear
    /\ UNCHANGED <<softmax_kernel, checkpoint, cached, artifacts, text_input_single, uploader_key_counter, results_df,
                   max_batch_size, uploaded_file, everHalted,
                   call_input, call_fault, call_output, call_state>>
    /\ Rerun

SetMaxBatchSize(m) ==
    /\ cached
    /\ m # max_batch_size
    /\ max_batch_size' = m
    /\ clearClicked' = NoClear
    /\ UNCHANGED <<softmax_kernel, checkpoint, cached, artifacts, text_input_single, uploader_key_counter, results_df,
                   confidence_threshold, uploaded_file, everHalted,
                   call_input, call_fault, call_output, call_state>>
    /\ Rerun

\* The user puts a file into the uploader (replacing the one there).
Upload(f) ==
    /\ cached
    /\ f # uploaded_file
    /\ uploaded_file' = f
    /\ clearClicked' = NoClear
    /\ UNCHANGED <<softmax_kernel, checkpoint, cached, artifacts, text_input_single, uploader_key_counter, results_df,
                   confidence_threshold, max_batch_size, everHalted,
                   call_input, call_fault, call_output, call_state>>
    /\ Rerun

\* The user removes the file from the uploader.
RemoveFile ==
    /\ cached
    /\ uploaded_file.present
    /\ uploaded_file' = NoFile
    /\ clearClicked' = NoClear
    /\ UNCHANGED <<softmax_kernel, checkpoint, cached, artifacts, text_input_single, uploader_key_counter, results_df,
                   confidence_threshold, max_batch_size, everHalted,
                   call_input, call_fault, call_output, call_state>>
    /\ Rerun

\* Variant: the callback leaves results_df in the session state
clear_keeping_results ==
    /\ cached
    /\ uploader_key_counter < MaxClears
    /\ text_input_single' = <<>>
    /\ results_df' = results_df
    /\ uploader_key_counter' = uploader_key_counter + 1
    /\ uploaded_file' = NoFile
    /\ clearClicked' = [clicked |-> TRUE, hadText |-> text_input_single # <<>>,
                        hadResults |-> results_df.present]
    /\ UNCHANGED <<softmax_kernel, checkpoint, cached, artifacts, confidence_threshold, max_batch_size,
                   everHalted, call_input, call_fault, call_output, call_state>>
    /\ Rerun

\* clear_inputs_and_results, the callback of "Clear Inputs & Results"; the
\* uploader is rendered under its new key and so holds no file.
clear_inputs_and_results ==
    /\ cached
    /\ uploader_key_counter < MaxClears
    /\ text_input_single' = <<>>
    /\ results_df' = AbsentDF
    /\ uploader_key_counter' = uploader_key_counter + 1
    /\ uploaded_file' = NoFile
    /\ clearClicked' = [clicked |-> TRUE, hadText |-> text_input_single # <<>>,
                        hadResults |-> results_df.present]
    /\ UNCHANGED <<softmax_kernel, checkpoint, cached, artifacts, confidence_threshold, max_batch_size,
                   everHalted, call_input, call_fault, call_output, call_state>>
    /\ Rerun

MinSingleLen == 10

\* Lines 222-241: the rest of the run once predict_category returned (or
\* raised) r for the text area
AfterClassify(r) ==
    IF r.raised
    THEN /\ message' = "uncaught exception"
         /\ display' = NotRendered("skipped")
         /\ single_result' = [status |-> "exception", record |-> NoSingle.record]
         /\ lastCalls' = r.calls
         /\ raised' = FALSE
         /\ chunkSizes' = <<>>
         /\ UNCHANGED usedKeys
    ELSE Page([status |-> "result", record |-> r.results[1]], r.calls)

\* "Classify Article" (enabled when the text area is not empty).  An
\* exception of the model call is not caught: the run ends there.
ClassifySingle(failAt) ==
    /\ cached
    /\ text_input_single # <<>>
    /\ clearClicked' = NoClear
    /\ UNCHANGED <<softmax_kernel, checkpoint, cached, artifacts, text_input_single, uploader_key_counter, results_df,
                   confidence_threshold, max_batch_size, uploaded_file, everHalted,
                   call_input, call_fault, call_output, call_state>>
    /\ IF Len(Strip(text_input_single)) < MinSingleLen
       THEN Page([status |-> "too_short", record |-> NoSingle.record], <<>>)
       ELSE AfterClassify(predict_category(<<Str(text_input_single)>>, failAt, 0))

\* Variant: results_df is assigned whatever the loop did
StoredAfterRunPartial(old, r) == DataFrame(r.results)

\* Lines 273-282: results_df is assigned after the loop, so only when no
\* call raised; old is the value before the run.
StoredAfterRun(old, r) == IF r.raised THEN old ELSE DataFrame(r.results)

\* Lines 278-308: the rest of the run once the loop over the chunks of
\* parse.texts ended as r
AfterAnalysis(parse, r) ==
    /\ results_df' = StoredAfterRun(results_df, r)
    /\ message' = IF r.raised THEN "Error processing file" ELSE "none"
    /\ display' = ResultsSection(results_df', confidence_threshold, parse)
    /\ single_result' = NoSingle
    /\ lastCalls' = r.calls
    /\ raised' = r.raised
    /\ chunkSizes' = LET split == ArraySplit(parse.texts, NumChunks(Len(parse.texts)))
                     IN  [k \in 1 .. Len(split) |-> Len(split[k])]

\* "Run Analysis on n Articles" (rendered when the upload was parsed).
RunAnalysis(failAt) ==
    LET parse == ParseUpload(uploaded_file, max_batch_size)
    IN  /\ cached
        /\ parse.status = "ok"
        /\ AfterAnalysis(parse, BatchAnalysis(parse.texts, failAt))
        /\ clearClicked' = NoClear
        /\ UNCHANGED <<softmax_kernel, checkpoint, cached, artifacts, text_input_single, uploader_key_counter,
                       confidence_threshold, max_batch_size, uploaded_file,
                       usedKeys, everHalted,
                       call_input, call_fault, call_output, call_state>>

Next ==
    \/ \E fs \in Artifacts : StartRun(fs)
    \/ \E t \in TextInputs : EditText(t)
    \/ load_sample
    \/ \E failAt \in FaultPoints : ClassifySingle(failAt)
    \/ \E t \in Thresholds : SetThreshold(t)
    \/ \E m \in BatchSizes : SetMaxBatchSize(m)
    \/ \E f \in Files : Upload(f)
    \/ RemoveFile
    \/ \E failAt \in FaultPoints : RunAnalysis(failAt)
    \/ clear_inputs_and_results

Spec == Init /\ [][Next]_vars

----------------------------------------------------------------------------
(* predict_category applied to arbitrary lists *)

InitPredict ==
    /\ cached = FALSE
    /\ softmax_kernel \in Kernels
    /\ checkpoint \in Checkpoints
    /\ artifacts = "unknown"
    /\ clearClicked = NoClear
    /\ text_input_single = <<>>
    /\ uploader_key_counter = 0
    /\ results_df = AbsentDF
    /\ confidence_threshold = DefaultThreshold
    /\ max_batch_size = DefaultBatchSize
    /\ uploaded_file = NoFile
    /\ message = "none"
    /\ display = NotRendered("skipped")
    /\ single_result = NoSingle
    /\ lastCalls = <<>>
    /\ raised = FALSE
    /\ chunkSizes = <<>>
    /\ usedKeys = {}
    /\ everHalted = FALSE
    /\ call_input \in InputLists
    /\ call_fault \in FaultPoints
    /\ call_output = NoCall
    /\ call_state = "pending"

CallPredict ==
    /\ call_state = "pending"
    /\ call_state' = "done"
    /\ call_output' = predict_category(call_input, call_fault, 0)
    /\ UNCHANGED <<softmax_kernel, checkpoint, call_input, call_fault,
                   cached, artifacts, clearClicked, text_input_single, uploader_key_counter, results_df,
                   confidence_threshold, max_batch_size, uploaded_file, message,
                   display, single_result, lastCalls, raised, chunkSizes,
                   usedKeys, everHalted>>

NextPredict == CallPredict

SpecPredict == InitPredict /\ [][NextPredict]_vars

----------------------------------------------------------------------------
(* Properties of predict_category, checked under SpecPredict *)

Returned == call_state = "done" /\ ~call_output.raised

Positions == 1 .. Len(call_input)

\* what Python's str test and strip() make of an entry, stated on the entry
IsBlankOrNonString(e) ==
    e.type # "str" \/ \A k \in 1 .. Len(e.chars) : e.chars[k] = " "

\* 1.0 in units of 2^-30
SumScale == TwoTo(30)

\* A probability is added up exactly, digit by digit in base 2^28: digit 0
\* counts units of 2^-30, digit k units of 2^(-30 - 28 k).
DigitBase == TwoTo(28)

\* the last digit a float32 value can have: 2^(-30 - 28 * MaxDigit) is below
\* 2^MinExp
MaxDigit == (-MinExp - 30) \div 28 + 1

\* the largest multiple of 2^-30 that is at most the float f of [0, 1]
FloorUnits(f) ==
    IF f.e >= -30 THEN f.m * TwoTo(f.e + 30)
    ELSE IF f.e < -54 THEN 0
    ELSE f.m \div TwoTo(-30 - f.e)

\* digit k >= 1 of the float f
Digit(f, k) ==
    LET u == f.e + 30 + 28 * k
    IN  IF u >= 28 \/ u < -24 THEN 0
        ELSE IF u >= 0 THEN (f.m % TwoTo(28 - u)) * TwoTo(u)
        ELSE (f.m \div TwoTo(-u)) % DigitBase

RECURSIVE SumUnits(_, _)
\* the sum of the digits 0 of the probabilities of labels
SumUnits(rp, labels) ==
    IF labels = {} THEN 0
    ELSE LET l == CHOOSE x \in labels : TRUE
         IN  FloorUnits(rp[l]) + SumUnits(rp, labels \ {l})

RECURSIVE SumDigits(_, _, _)
\* the sum of the digits k of the probabilities of labels
SumDigits(rp, labels, k) ==
    IF labels = {} THEN 0
    ELSE LET l == CHOOSE x \in labels : TRUE
         IN  Digit(rp[l], k) + SumDigits(rp, labels \ {l}, k)

RECURSIVE DigitTotal(_, _)
\* the sum of the digits k with the carry of the digits after k
DigitTotal(rp, k) ==
    IF k > MaxDigit THEN 0
    ELSE SumDigits(rp, DOMAIN rp, k) + DigitTotal(rp, k + 1) \div DigitBase

\* the exact sum of the probabilities, rounded down to units of 2^-30
SumFloor(rp) == SumUnits(rp, DOMAIN rp) + DigitTotal(rp, 1) \div DigitBase

\* the exact sum of the probabilities is a multiple of 2^-30
SumIsWhole(rp) == \A k \in 1 .. MaxDigit : DigitTotal(rp, k) % DigitBase = 0

\* the probabilities add up to exactly 1.0
SumIsOne(rp) == SumFloor(rp) = SumScale /\ SumIsWhole(rp)

\* the float32 machine epsilon, 2^-23, in units of 2^-30
Epsilon == TwoTo(7)

\* the probabilities add up to 1.0 up to one epsilon per class
SumsToOneWithinTolerance(rp) ==
    /\ SumFloor(rp) >= SumScale - NumLabels * Epsilon
    /\ \/ SumFloor(rp) < SumScale + NumLabels * Epsilon
       \/ SumFloor(rp) = SumScale + NumLabels * Epsilon /\ SumIsWhole(rp)

\* the confidence of the record is the largest of its probabilities and is
\* the probability of its predicted category
ConfidenceIsMaximum(rec) ==
    /\ rec.predicted_category \in DOMAIN rec.raw_probabilities
    /\ rec.confidence = rec.raw_probabilities[rec.predicted_category]
    /\ \A l \in DOMAIN rec.raw_probabilities :
           GeqFloat(rec.confidence, rec.raw_probabilities[l])

\* C1: the list predict_category returns has one record per entry of the
\* input, and the text of the i-th record is the i-th entry, whatever mix
\* of valid, empty, whitespace-only and non-string entries the input holds.
C1_OneRecordPerEntryInOrder ==
    Returned =>
        /\ Len(call_output.results) = Len(call_input)
        /\ \A i \in Positions : call_output.results[i].text = call_input[i]

C1_Witness ==
    /\ Returned
    /\ Len(call_input) >= 3
    /\ \E i, j, k \in Positions :
           /\ ~IsBlankOrNonString(call_input[i])
           /\ call_input[j].type # "str"
           /\ call_input[k].type = "str" /\ IsBlankOrNonString(call_input[k])

\* C2: an entry that is not a string, is empty or is whitespace-only is
\* never given to the model and never makes the call raise; when the call
\* returns, its record is the sentinel ("Invalid/Empty", 0.0) and every
\* other entry has the record it has when classified alone.
C2_InvalidEntriesGetSentinel ==
    call_state = "done" =>
        /\ \A n \in 1 .. Len(call_output.calls) :
               ~IsBlankOrNonString(call_input[call_output.calls[n]])
        /\ Returned =>
               \A i \in Positions :
                   IF IsBlankOrNonString(call_input[i])
                   THEN /\ call_output.results[i].predicted_category = "Invalid/Empty"
                        /\ call_output.results[i].confidence = Zero
                   ELSE /\ call_output.results[i] =
                               predict_category(<<call_input[i]>>, 0, 0).results[1]
                        /\ \E n \in 1 .. Len(call_output.calls) : call_output.calls[n] = i

C2_Witness ==
    /\ Returned
    /\ \E i, j, k \in Positions :
           /\ call_input[i] = Str(<<" ", " ">>)
           /\ call_input[j] = NoneValue
           /\ ~IsBlankOrNonString(call_input[k])
           /\ call_output.results[i].predicted_category = "Invalid/Empty"
           /\ call_output.results[k].predicted_category # "Invalid/Empty"

\* C3 as stated: every record predict_category produces has probabilities
\* that sum to 1.0 and a confidence equal to the largest of them, the
\* probability of the predicted class.
C3_EveryRecordIsADistribution ==
    Returned =>
        \A i \in Positions :
            /\ SumIsOne(call_output.results[i].raw_probabilities)
            /\ ConfidenceIsMaximum(call_output.results[i])

\* C3 amended: every record produced for a valid entry has probabilities
\* that sum to 1.0 within floating-point tolerance (2^-23 per class) and a
\* confidence equal to the largest of them, the probability of the
\* predicted class; the sentinel record of an invalid entry has no
\* probabilities and confidence 0.0.
C3_ModelRecordsAreDistributions ==
    Returned =>
        \A i \in Positions :
            IF IsBlankOrNonString(call_input[i])
            THEN /\ DOMAIN call_output.results[i].raw_probabilities = {}
                 /\ call_output.results[i].confidence = Zero
            ELSE /\ SumsToOneWithinTolerance(call_output.results[i].raw_probabilities)
                 /\ ConfidenceIsMaximum(call_output.results[i])

C3_Witness ==
    /\ Returned
    /\ \E i, j \in Positions :
           /\ call_output.results[i].predicted_category = "Sports"
           /\ ~SumIsOne(call_output.results[i].raw_probabilities)
           /\ GeqThreshold(call_output.results[i].confidence, 61)
           /\ ~GeqThreshold(call_output.results[i].confidence, 62)
           /\ call_output.results[j].predicted_category = "Invalid/Empty"

----------------------------------------------------------------------------
(* Properties of the session, checked under Spec *)

RECURSIVE SumSeq(_)
SumSeq(q) == IF q = <<>> THEN 0 ELSE Head(q) + SumSeq(Tail(q))

\* the last run executed the batch analysis loop
BatchRan == chunkSizes # <<>>

\* the articles of the uploaded file, before the batch-size limit
UploadedTexts ==
    IF uploaded_file.ext = "txt" THEN TxtTexts(uploaded_file.rows)
    ELSE CsvTexts(uploaded_file.rows)

\* the first min(|T|, m) of them
ProcessedTexts ==
    SubSeq(UploadedTexts, 1, Min(Len(UploadedTexts), max_batch_size))

MeetsThreshold(row) == GeqThreshold(row.confidence, confidence_threshold)

\* C4: whenever batch results are stored and the results section is
\* reached, the rows used for display are exactly the stored rows whose
\* confidence is at least the threshold: all rows at threshold 0.0, none
\* at a threshold above every stored confidence.
C4_DisplayIsThresholdFilter ==
    (results_df.present /\ display.status # "skipped") =>
        /\ display.status = "rows"
        /\ display.rows = SelectSeq(results_df.rows, MeetsThreshold)
        /\ confidence_threshold = 0 => display.rows = results_df.rows

\* C5: after a successful batch analysis the stored results are what one
\* call of predict_category on the first min(|T|, m) uploaded texts returns.
C5_BatchEqualsSingleCall ==
    (BatchRan /\ ~raised) =>
        /\ results_df.present
        /\ results_df.rows = predict_category(ProcessedTexts, 0, 0).results

UploadErrors == {"CSV file must contain a 'text' column.", "Error processing file"}

Malformed(f) ==
    /\ f.present
    /\ \/ f.ext \notin {"txt", "csv"}
       \/ f.ext = "csv" /\ ~f.hasText
       \/ \E i \in 1 .. Len(f.rows), k \in 1 .. 4 :
              k <= Len(f.rows[i].chars) /\ f.rows[i].chars[k] = "XFF"

\* C6: a run that receives a malformed upload reports an error, calls the
\* model for no article, and leaves the stored results, the text input,
\* the uploader key and the loaded model as they were; a valid file
\* uploaded in its place afterwards is accepted without error.
C6_MalformedUploadIsRejected ==
    [][/\ (uploaded_file' # uploaded_file /\ Malformed(uploaded_file')) =>
          /\ message' \in UploadErrors
          /\ lastCalls' = <<>>
          /\ chunkSizes' = <<>>
          /\ results_df' = results_df
          /\ text_input_single' = text_input_single
          /\ uploader_key_counter' = uploader_key_counter
          /\ cached'
       /\ (/\ Malformed(uploaded_file)
           /\ uploaded_file' # uploaded_file
           /\ uploaded_file'.present
           /\ ~Malformed(uploaded_file')) =>
              (cached' /\ message' = "none" /\ ~raised')]_vars

\* a malformed file was uploaded while results of an earlier analysis were stored
C6_Witness ==
    /\ Malformed(uploaded_file)
    /\ uploaded_file.ext = "csv"
    /\ message \in UploadErrors
    /\ lastCalls = <<>>
    /\ results_df.present
    /\ results_df.rows # <<>>

NoRepeats(q) == \A i, j \in 1 .. Len(q) : q[i] = q[j] => i = j

\* C7: in every run the model is given each article at most once, and a
\* run in which file parsing or batch inference raises shows the error and
\* leaves the stored results exactly as they were before the run.
C7_FailedRunStoresNothing ==
    [][/\ NoRepeats(lastCalls')
       /\ raised' =>
              /\ message' = "Error processing file"
              /\ results_df' = results_df]_vars

\* the twelfth model call of a batch run raised, in its second chunk, while
\* the one-row results of an earlier run were stored
C7_Witness ==
    /\ raised
    /\ BatchRan
    /\ Len(chunkSizes) = 2
    /\ Len(lastCalls) = 12
    /\ results_df.present
    /\ Len(results_df.rows) = 1

LoadErrors == {"Model files not found", "An error occurred during model loading"}

\* C8 as stated: once a load has failed, no classification is ever
\* performed and no batch results are ever stored.
C8_NothingAfterFailedLoad ==
    [][everHalted => (lastCalls' = <<>> /\ ~results_df'.present)]_vars

\* C8 amended: a run that finds the model directory or the label map
\* missing, or cannot load them, reports the error and halts without the
\* model being cached; a run that leaves the model unloaded performs no
\* classification, and no batch results are stored before the model is loaded.
C8_NothingUntilLoaded ==
    /\ artifacts \notin {"unknown", "present"} =>
           (~cached /\ everHalted /\ message \in LoadErrors)
    /\ ~cached => (~results_df.present /\ lastCalls = <<>> /\ single_result = NoSingle)

C8_Witness ==
    /\ artifacts = "no_label_map"
    /\ everHalted
    /\ ~cached
    /\ message = "Model files not found"

NearEqual(sizes) ==
    \A i, j \in 1 .. Len(sizes) : sizes[i] - sizes[j] <= 1 /\ sizes[j] - sizes[i] <= 1

\* C9 as stated: the number of chunks is the same for every list length
\* (the one used for a one-article list), and the chunks are near-equal.
C9_FixedNumberOfChunks ==
    BatchRan => (Len(chunkSizes) = NumChunks(1) /\ NearEqual(chunkSizes))

\* C9 amended: a list of n texts is split into max(1, n div 10) chunks,
\* which together hold the n texts and whose sizes differ by at most one.
C9_ChunksFollowLength ==
    BatchRan =>
        /\ Len(chunkSizes) = IF Len(ProcessedTexts) < 20 THEN 1
                             ELSE Len(ProcessedTexts) \div 10
        /\ SumSeq(chunkSizes) = Len(ProcessedTexts)
        /\ NearEqual(chunkSizes)

C9_Witness ==
    /\ BatchRan
    /\ Len(chunkSizes) = 2
    /\ chunkSizes[1] = chunkSizes[2] + 1

\* C10: the clear callback empties the text input, removes the stored
\* results, and raises uploader_key_counter by one to a key not rendered
\* before, so the uploader holds no file; the counter never decreases, and
\* results appear again only through a successful batch analysis.
C10_ClearResetsSession ==
    [][/\ uploader_key_counter' >= uploader_key_counter
       /\ clearClicked'.clicked =>
              /\ text_input_single' = <<>>
              /\ ~results_df'.present
              /\ display'.status = "absent"
              /\ uploader_key_counter' = uploader_key_counter + 1
              /\ uploader_key_counter' \notin usedKeys
              /\ ~uploaded_file'.present
       /\ (~results_df.present /\ results_df'.present) =>
              (chunkSizes' # <<>> /\ ~raised')]_vars

C10_Witness ==
    /\ clearClicked.clicked
    /\ clearClicked.hadText
    /\ clearClicked.hadResults
    /\ uploader_key_counter = 1
    /\ usedKeys = {0, 1}
    /\ text_input_single = <<>>
    /\ ~results_df.present

====
